---- MODULE Spec2Model ----
(***************************************************************************)
(* A model of py-enforce: the `enforce` decorator (decorators.py), the     *)
(* validator contract (validators/bases.py) and the two built-in rules     *)
(* NotEmpty and Unique (validators/not_empty.py, validators/unique.py).    *)
(*                                                                         *)
(* One behaviour is one invocation of a wrapped callable: the arguments    *)
(* are bound, the engine walks the parameters and their validators, the    *)
(* underlying callable is invoked and its body pulls from the generator    *)
(* arguments it received.  Generators are objects on a heap (gens); a      *)
(* wrapper generator holds the id of the generator it reads from.          *)
(***************************************************************************)
EXTENDS Integers, Sequences, FiniteSets, TLC

VARIABLES
    sig,             \* inspect.signature(func): <<[name, annotation, rules, default]>>
    args,            \* the positional arguments of the call
    kwargs,          \* the keyword arguments of the call, in the order supplied
    arguments,       \* bound_args.arguments: parameter name -> value
    argument_value,  \* the local of the same name in enforce.wrapper
    pi,              \* position of the parameter loop (decorators.py:23)
    vi,              \* position of the validator loop (decorators.py:33); 0 = not entered
    pc,              \* "call", "loop", "body", "returned", "failed_call", "hang"
    err,             \* the exception that left the wrapped call, or NoErr
    gens,            \* heap of generator objects: id -> generator state
    events,          \* parameter name -> outcomes of the body's next() calls
    log,             \* history: what the engine did, in order
    func_return,     \* what the underlying callable returned
    result,          \* what the wrapped callable returned
    pending          \* the calls the caller makes after this one: their arguments

vars == <<sig, args, kwargs, arguments, argument_value, pi, vi, pc, err, gens, events, log,
          func_return, result, pending>>

(***************************************************************************)
(* Bounds of the model                                                     *)
(***************************************************************************)
MaxLen == 3      \* longest list / finite generator passed as an argument
MaxRules == 2    \* most validators attached to one parameter
MaxPulls == 4    \* most next() calls the body of the callable makes

Elems == {1, 2}  \* the elements of finite collections and generators

RECURSIVE SeqsUpTo(_, _)
SeqsUpTo(S, n) ==
    IF n = 0 THEN {<<>>}
    ELSE LET shorter == SeqsUpTo(S, n - 1)
         IN  shorter \cup {Append(s, x) : s \in {t \in shorter : Len(t) = n - 1}, x \in S}

Range(s) == {s[i] : i \in DOMAIN s}

(***************************************************************************)
(* Python equality of elements.  Elements are numbers; True and 1.0 are    *)
(* values of other types that are equal to the int 1 and hash like it.     *)
(* They are encoded as numbers of their own, one decade per type, so the   *)
(* model can tell them apart where Python's == and hash() do not.          *)
(***************************************************************************)
PyTrue == 11      \* the bool True
PyFloatOne == 21  \* the float 1.0

\* the number an element is equal to
PyNum(e) == e % 10

\* a == b
PyEq(a, b) == PyNum(a) = PyNum(b)

\* set(items): one element of each class of equal elements
PySet(items) == {PyNum(items[i]) : i \in DOMAIN items}

(***************************************************************************)
(* Exceptions                                                              *)
(***************************************************************************)
NoErr == [exc |-> "none", rule |-> "", param |-> "", msg |-> ""]

Raise(exc, rule, param, msg) == [exc |-> exc, rule |-> rule, param |-> param, msg |-> msg]

(***************************************************************************)
(* Validators.  NonGeneratorValidator is the plain Validator subclass of   *)
(* tests/test_enforce.py: it is not a GeneratorValidator and its validate  *)
(* accepts everything.                                                     *)
(***************************************************************************)
GeneratorValidators == {"NotEmpty", "Unique"}

Validators ==
    [cls : GeneratorValidators, exhaust_generators : BOOLEAN]
        \cup {[cls |-> "NonGeneratorValidator", exhaust_generators |-> FALSE]}

IsGeneratorValidator(validator) == validator.cls \in GeneratorValidators

\* Annotated metadata that is not a Validator: the ... of Annotated[int, ...]
Ellipsis == [cls |-> "Ellipsis", exhaust_generators |-> FALSE]

\* an isinstance test that all metadata passes
IsAnyMetadata(m) == TRUE

\* decorators.py:34: isinstance(validator, Validator)
IsValidator(m) == m \in Validators

(***************************************************************************)
(* Values.  A list and a set are Sized Collections, an int is neither, a    *)
(* generator is a reference to a heap object.  A set holds its elements    *)
(* as a sequence without repetition (its iteration order).                 *)
(***************************************************************************)
ListValue(items) == [tag |-> "list", items |-> items, id |-> 0]
SetValue(items) == [tag |-> "set", items |-> items, id |-> 0]
IntValue == [tag |-> "int", items |-> <<>>, id |-> 0]
NoneValue == [tag |-> "None", items |-> <<>>, id |-> 0]

\* inspect.Parameter.empty: the default of a parameter that has none
NoDefault == [tag |-> "empty", items |-> <<>>, id |-> 0]
GenValue(id) == [tag |-> "gen", items |-> <<>>, id |-> id]

IsGenerator(value) == value.tag = "gen"
IsSized(value) == value.tag \in {"list", "set"}
IsCollection(value) == value.tag \in {"list", "set"}
IsSet(value) == value.tag = "set"

(***************************************************************************)
(* NotEmpty.validate and Unique.validate                                   *)
(***************************************************************************)
\* NotEmpty.validate that reports a value without len() as an empty one
NotEmptyValidateNoTypeCheck(value, param_name) ==
    IF ~IsSized(value) \/ Len(value.items) = 0
    THEN Raise("ValidationError", "NotEmpty", param_name, "cannot be empty")
    ELSE NoErr

NotEmptyValidate(value, param_name) ==
    IF ~IsSized(value)
    THEN Raise("TypeError", "NotEmpty", param_name, "can only be used on types that support len()")
    ELSE IF Len(value.items) = 0
    THEN Raise("ValidationError", "NotEmpty", param_name, "cannot be empty")
    ELSE NoErr

\* Unique.validate that compares neighbouring elements only
UniqueValidateAdjacent(value, param_name) ==
    IF ~IsCollection(value)
    THEN Raise("TypeError", "Unique", param_name, "can only be used on types that are iterable")
    ELSE IF IsSet(value)
    THEN NoErr
    ELSE IF \E i \in 1..(Len(value.items) - 1) : value.items[i] = value.items[i + 1]
    THEN Raise("ValidationError", "Unique", param_name, "must contain unique elements")
    ELSE NoErr

\* Unique.validate that tells elements of different types apart
UniqueValidateTypeStrict(value, param_name) ==
    IF ~IsCollection(value)
    THEN Raise("TypeError", "Unique", param_name, "can only be used on types that are iterable")
    ELSE IF IsSet(value)
    THEN NoErr
    ELSE IF Len(value.items) # Cardinality(Range(value.items))
    THEN Raise("ValidationError", "Unique", param_name, "must contain unique elements")
    ELSE NoErr

UniqueValidate(value, param_name) ==
    IF ~IsCollection(value)
    THEN Raise("TypeError", "Unique", param_name, "can only be used on types that are iterable")
    ELSE IF IsSet(value)
    THEN NoErr
    ELSE IF Len(value.items) # Cardinality(PySet(value.items))
    THEN Raise("ValidationError", "Unique", param_name, "must contain unique elements")
    ELSE NoErr

\* validate that an eager validator skips
validate_unless_eager(validator, value, param_name) ==
    IF validator.exhaust_generators THEN NoErr
    ELSE CASE validator.cls = "NotEmpty" -> NotEmptyValidate(value, param_name)
           [] validator.cls = "Unique" -> UniqueValidate(value, param_name)
           [] OTHER -> NoErr

validate(validator, value, param_name) ==
    CASE validator.cls = "NotEmpty" -> NotEmptyValidate(value, param_name)
      [] validator.cls = "Unique" -> UniqueValidate(value, param_name)
      [] OTHER -> NoErr

(***************************************************************************)
(* Generator objects.  A source generator yields its items and then, when  *)
(* infinite, itertools.count(): 0, 1, 2, ...  A wrapper is the generator   *)
(* made by NotEmpty.wrap_generator or Unique.wrap_generator; gen is the id *)
(* of the generator it reads.  pc is the state of a Python generator:      *)
(* "created" (not started), "suspended" (at a yield), "closed".            *)
(***************************************************************************)
Source(items, infinite) ==
    [kind |-> "source", items |-> items, infinite |-> infinite, pos |-> 0,
     gen |-> 0, pc |-> "created", seen |-> {}, val |-> 0, param |-> ""]

Wrapper(kind, gen, param_name) ==
    [kind |-> kind, items |-> <<>>, infinite |-> FALSE, pos |-> 0,
     gen |-> gen, pc |-> "created", seen |-> {}, val |-> 0, param |-> param_name]

Yield(h, v) == [h |-> h, tag |-> "yield", val |-> v, err |-> NoErr]
Stop(h) == [h |-> h, tag |-> "stop", val |-> 0, err |-> NoErr]
Throw(h, e) == [h |-> h, tag |-> "raise", val |-> 0, err |-> e]

\* next() on a source generator
SourceNext(h, id) ==
    LET g == h[id]
    IN  IF g.pc = "closed" THEN Stop(h)
        ELSE IF g.pos < Len(g.items)
        THEN Yield([h EXCEPT ![id].pos = @ + 1, ![id].pc = "suspended"], g.items[g.pos + 1])
        ELSE IF g.infinite
        THEN Yield([h EXCEPT ![id].pos = @ + 1, ![id].pc = "suspended"], g.pos - Len(g.items))
        ELSE Stop([h EXCEPT ![id].pc = "closed"])

\* NotEmptyResume without the raise in the except StopIteration branch
NotEmptyResumeSilent(r, id) ==
    CASE r.tag = "yield" -> Yield([r.h EXCEPT ![id].pc = "suspended"], r.val)
      [] r.tag = "stop" -> Stop([r.h EXCEPT ![id].pc = "closed"])
      [] OTHER -> Throw([r.h EXCEPT ![id].pc = "closed"], r.err)

\* NotEmptyResume without the final "yield from gen"
NotEmptyResumeFirstOnly(r, id) ==
    LET g == r.h[id]
    IN  IF g.pc = "suspended" THEN Stop([r.h EXCEPT ![id].pc = "closed"])
        ELSE CASE r.tag = "yield" -> Yield([r.h EXCEPT ![id].pc = "suspended"], r.val)
               [] r.tag = "stop" ->
                     Throw([r.h EXCEPT ![id].pc = "closed"],
                           Raise("ValidationError", "NotEmpty", g.param, "cannot be empty"))
               [] OTHER -> Throw([r.h EXCEPT ![id].pc = "closed"], r.err)

\* NotEmpty.wrap_generator.wrapper resumed; r is the outcome of its next(gen)
NotEmptyResume(r, id) ==
    LET g == r.h[id]
    IN  CASE r.tag = "yield" -> Yield([r.h EXCEPT ![id].pc = "suspended"], r.val)
          [] r.tag = "stop" ->
                IF g.pc = "created"
                THEN Throw([r.h EXCEPT ![id].pc = "closed"],
                           Raise("ValidationError", "NotEmpty", g.param, "cannot be empty"))
                ELSE Stop([r.h EXCEPT ![id].pc = "closed"])
          [] OTHER -> Throw([r.h EXCEPT ![id].pc = "closed"], r.err)

\* UniqueResume without seen.add(val)
UniqueResumeForgetful(r, id) ==
    LET g == r.h[id]
    IN  CASE r.tag = "yield" ->
                IF r.val \in g.seen
                THEN Throw([r.h EXCEPT ![id].pc = "closed"],
                           Raise("ValidationError", "Unique", g.param, "must contain unique elements"))
                ELSE Yield([r.h EXCEPT ![id].pc = "suspended", ![id].val = r.val], r.val)
          [] r.tag = "stop" -> Stop([r.h EXCEPT ![id].pc = "closed"])
          [] OTHER -> Throw([r.h EXCEPT ![id].pc = "closed"], r.err)

\* UniqueResume with seen.add(val) moved before the membership test
UniqueResumeAddFirst(r, id) ==
    LET g == r.h[id]
        seen == IF r.tag = "yield" THEN g.seen \cup {r.val} ELSE g.seen
    IN  CASE r.tag = "yield" ->
                IF r.val \in seen
                THEN Throw([r.h EXCEPT ![id].pc = "closed", ![id].seen = seen],
                           Raise("ValidationError", "Unique", g.param, "must contain unique elements"))
                ELSE Yield([r.h EXCEPT ![id].pc = "suspended", ![id].seen = seen,
                                       ![id].val = r.val], r.val)
          [] r.tag = "stop" -> Stop([r.h EXCEPT ![id].pc = "closed"])
          [] OTHER -> Throw([r.h EXCEPT ![id].pc = "closed"], r.err)

\* UniqueResume whose raise leaves the wrapper suspended, as a loop that
\* reports the repeated element and goes on would
UniqueResumeGoesOn(r, id) ==
    LET g == r.h[id]
        seen == IF g.pc = "suspended" THEN g.seen \cup {g.val} ELSE g.seen
    IN  CASE r.tag = "yield" ->
                IF \E x \in seen : PyEq(x, r.val)
                THEN Throw([r.h EXCEPT ![id].pc = "suspended", ![id].seen = seen,
                                       ![id].val = r.val],
                           Raise("ValidationError", "Unique", g.param, "must contain unique elements"))
                ELSE Yield([r.h EXCEPT ![id].pc = "suspended", ![id].seen = seen,
                                       ![id].val = r.val], r.val)
          [] r.tag = "stop" -> Stop([r.h EXCEPT ![id].pc = "closed", ![id].seen = seen])
          [] OTHER -> Throw([r.h EXCEPT ![id].pc = "closed", ![id].seen = seen], r.err)

\* UniqueResume with seen kept on the Unique instance: one set for every
\* wrapper the instance made
UniqueResumeSharedSeen(r, id) ==
    LET g == r.h[id]
        own == IF g.pc = "suspended" THEN g.seen \cup {g.val} ELSE g.seen
        seen == own \cup UNION {r.h[j].seen \cup (IF r.h[j].pc = "suspended" THEN {r.h[j].val} ELSE {}) :
                                   j \in {k \in DOMAIN r.h : r.h[k].kind = "Unique"}}
    IN  CASE r.tag = "yield" ->
                IF \E x \in seen : PyEq(x, r.val)
                THEN Throw([r.h EXCEPT ![id].pc = "closed", ![id].seen = seen],
                           Raise("ValidationError", "Unique", g.param, "must contain unique elements"))
                ELSE Yield([r.h EXCEPT ![id].pc = "suspended", ![id].seen = seen,
                                       ![id].val = r.val], r.val)
          [] r.tag = "stop" -> Stop([r.h EXCEPT ![id].pc = "closed", ![id].seen = seen])
          [] OTHER -> Throw([r.h EXCEPT ![id].pc = "closed", ![id].seen = seen], r.err)

\* Unique.wrap_generator.wrapper resumed; r is the outcome of its next(gen)
UniqueResume(r, id) ==
    LET g == r.h[id]
        seen == IF g.pc = "suspended" THEN g.seen \cup {g.val} ELSE g.seen
    IN  CASE r.tag = "yield" ->
                IF \E x \in seen : PyEq(x, r.val)
                THEN Throw([r.h EXCEPT ![id].pc = "closed", ![id].seen = seen],
                           Raise("ValidationError", "Unique", g.param, "must contain unique elements"))
                ELSE Yield([r.h EXCEPT ![id].pc = "suspended", ![id].seen = seen,
                                       ![id].val = r.val], r.val)
          [] r.tag = "stop" -> Stop([r.h EXCEPT ![id].pc = "closed", ![id].seen = seen])
          [] OTHER -> Throw([r.h EXCEPT ![id].pc = "closed", ![id].seen = seen], r.err)

\* next(g) on any generator of the heap
RECURSIVE GenNext(_, _)
GenNext(h, id) ==
    IF h[id].kind = "source" THEN SourceNext(h, id)
    ELSE IF h[id].pc = "closed" THEN Stop(h)
    ELSE IF h[id].kind = "NotEmpty" THEN NotEmptyResume(GenNext(h, h[id].gen), id)
    ELSE UniqueResume(GenNext(h, h[id].gen), id)

(***************************************************************************)
(* wrap_generator: both rules return wrapper(value), a generator object    *)
(* that has not started running.  The result carries the new heap, the     *)
(* returned generator and the exception raised by the call (none).         *)
(***************************************************************************)
NewId(h) ==
    IF DOMAIN h = {} THEN 1
    ELSE (CHOOSE m \in DOMAIN h : \A k \in DOMAIN h : k <= m) + 1

\* wrap_generator that starts the wrapper before returning it
wrap_generator_primed(validator, h, value, param_name) ==
    LET id == NewId(h)
        r == GenNext(h @@ (id :> Wrapper(validator.cls, value.id, param_name)), id)
    IN  [h |-> r.h, value |-> GenValue(id), err |-> r.err]

wrap_generator(validator, h, value, param_name) ==
    LET id == NewId(h)
    IN  [h |-> h @@ (id :> Wrapper(validator.cls, value.id, param_name)),
         value |-> GenValue(id), err |-> NoErr]

(***************************************************************************)
(* list(argument_value): next() until StopIteration or an exception.  On   *)
(* an infinite generator the loop never ends (hang).  DrainFuel is a       *)
(* number of next() calls after which no wrapper can stop the loop any     *)
(* more: the source is past its items and its counter past every element   *)
(* the items contain.                                                      *)
(***************************************************************************)
RECURSIVE RootOf(_, _)
RootOf(h, id) == IF h[id].kind = "source" THEN id ELSE RootOf(h, h[id].gen)

MaxElem == CHOOSE m \in Elems : \A e \in Elems : e <= m

DrainFuel(h, id) == Len(h[RootOf(h, id)].items) + MaxElem + 2

RECURSIVE DrainRec(_, _, _, _)
DrainRec(h, id, acc, fuel) ==
    IF fuel = 0 THEN [h |-> h, items |-> acc, err |-> NoErr, hang |-> TRUE]
    ELSE LET r == GenNext(h, id)
         IN  CASE r.tag = "yield" -> DrainRec(r.h, id, Append(acc, r.val), fuel - 1)
               [] r.tag = "stop" -> [h |-> r.h, items |-> acc, err |-> NoErr, hang |-> FALSE]
               [] OTHER -> [h |-> r.h, items |-> acc, err |-> r.err, hang |-> FALSE]

\* list() that builds its result back to front
list_reversed(h, value) ==
    LET d == DrainRec(h, value.id, <<>>, DrainFuel(h, value.id))
    IN  [d EXCEPT !.items = [i \in 1..Len(d.items) |-> d.items[Len(d.items) + 1 - i]]]

list(h, value) == DrainRec(h, value.id, <<>>, DrainFuel(h, value.id))

(***************************************************************************)
(* enforce.wrapper                                                         *)
(***************************************************************************)
ParamNames == {sig[i].name : i \in DOMAIN sig}

\* sig.bind(**kwargs): each supplied value goes to the parameter of its name
bind(kw) == [n \in {kw[k].name : k \in DOMAIN kw} |->
                (CHOOSE k \in DOMAIN kw : kw[k].name = n)]

\* the parameters without a default that the call leaves out
Missing(kw) ==
    {i \in DOMAIN sig : /\ sig[i].default = NoDefault
                        /\ i > Len(args)
                        /\ \A k \in DOMAIN kw : kw[k].name # sig[i].name}

\* the keywords of the call that name a parameter a positional argument fills
Multiple(kw) ==
    {k \in DOMAIN kw : \E i \in DOMAIN sig \cap DOMAIN args : sig[i].name = kw[k].name}

\* the keywords of the call that name no parameter
Unexpected(kw) == {k \in DOMAIN kw : kw[k].name \notin ParamNames}

\* a bind that drops the keywords that name no parameter
BindFailsOnMissingOnly(kw) == Missing(kw) # {}

\* decorators.py:20: sig.bind raises TypeError
BindFails(kw) ==
    \/ Len(args) > Len(sig)
    \/ Multiple(kw) # {}
    \/ Missing(kw) # {}
    \/ Unexpected(kw) # {}

BindError(kw) ==
    IF Len(args) > Len(sig)
    THEN Raise("TypeError", "", "", "too many positional arguments")
    ELSE IF Multiple(kw) # {}
    THEN Raise("TypeError", "", "", "multiple values for argument")
    ELSE IF Missing(kw) # {}
    THEN Raise("TypeError", "", "", "missing a required argument")
    ELSE Raise("TypeError", "", "", "got an unexpected keyword argument")

\* sig.bind(*a, **kw).arguments: the i-th positional value goes to the i-th
\* parameter, each keyword value to the parameter of its name
bound_arguments(a, kw) ==
    [n \in {sig[i].name : i \in DOMAIN sig \cap DOMAIN a} \cup DOMAIN bind(kw) |->
        IF \E i \in DOMAIN sig \cap DOMAIN a : sig[i].name = n
        THEN a[CHOOSE i \in DOMAIN sig : sig[i].name = n]
        ELSE kw[bind(kw)[n]].value]

\* an engine that leaves the parameters with a default alone
IsAnnotatedWithoutDefault(param) == param.annotation = "Annotated" /\ param.default = NoDefault

\* decorators.py:24-28: the annotation is there and is an Annotated
IsAnnotated(param) == param.annotation = "Annotated"

\* decorators.py:21: the parameters left out get their defaults
apply_defaults(bound) ==
    LET defaulted == {sig[i].name : i \in {j \in DOMAIN sig : sig[j].default # NoDefault}}
    IN  [n \in DOMAIN bound \cup defaulted |->
            IF n \in DOMAIN bound THEN bound[n]
            ELSE sig[CHOOSE i \in DOMAIN sig : sig[i].name = n].default]

\* a wrapper that drops what the callable returns
ReturnNone(value) == NoneValue

\* decorators.py:61: return func(...)
ReturnOf(value) == value

\* an isinstance test that every validator passes
SupportsAny(validator) == TRUE

\* decorators.py:38: isinstance(validator, GeneratorValidator)
SupportsGenerators(validator) == IsGeneratorValidator(validator)

\* a validator that always asks for the generator to be exhausted
ExhaustAlways(validator) == TRUE

\* an exhaust flag that only Unique honours
ExhaustUniqueOnly(validator) == validator.exhaust_generators /\ validator.cls = "Unique"

\* decorators.py:44
ExhaustGenerators(validator) == validator.exhaust_generators

\* decorators.py:48-53: the wrapper is stored in bound_args.arguments only;
\* the local argument_value keeps the generator it held
CarriedValue(value, wrapped) == value

\* the parameters in the order the call supplied them
ParamInCallOrder(i) == sig[CHOOSE j \in DOMAIN sig : sig[j].name = kwargs[i].name]

\* decorators.py:23: the parameters in the order of the signature
ParamAt(i) == sig[i]

\* the validators from the last to the first
ValidatorReversed(validators, i) == validators[Len(validators) + 1 - i]

\* decorators.py:33: the validators in the order of the annotation
ValidatorAt(validators, i) == validators[i]

LogEntry(op, param_name, i) == [op |-> op, param |-> param_name, rule |-> i]

\* decorators.py:20-21
Bind ==
    /\ pc = "call"
    /\ IF BindFails(kwargs)
       THEN /\ pc' = "failed_call"
            /\ err' = BindError(kwargs)
            /\ UNCHANGED <<arguments, pi, vi>>
       ELSE /\ arguments' = apply_defaults(bound_arguments(args, kwargs))
            /\ pc' = "loop"
            /\ pi' = 1
            /\ vi' = 0
            /\ err' = err
    /\ UNCHANGED <<pending, func_return, result, sig, args, kwargs, argument_value, gens, events, log>>

EnterParam ==
    /\ pc = "loop"
    /\ vi = 0
    /\ pi <= Len(sig)
    /\ IF ~IsAnnotated(ParamAt(pi))
       THEN /\ pi' = pi + 1
            /\ UNCHANGED <<vi, argument_value>>
       ELSE /\ argument_value' = arguments[ParamAt(pi).name]
            /\ vi' = 1
            /\ pi' = pi
    /\ UNCHANGED <<pending, func_return, result, sig, args, kwargs, arguments, pc, err, gens, events, log>>

ApplyValidator ==
    /\ pc = "loop"
    /\ vi >= 1
    /\ LET param_name == ParamAt(pi).name
           validators == ParamAt(pi).rules
           validator == ValidatorAt(validators, vi)
           last == vi = Len(validators)
           Advance == /\ pc' = "loop"
                      /\ vi' = IF last THEN 0 ELSE vi + 1
                      /\ pi' = IF last THEN pi + 1 ELSE pi
                      /\ err' = err
           Fail(e) == /\ pc' = "failed_call"
                      /\ err' = e
                      /\ UNCHANGED <<pi, vi>>
           Validated(value) == LET e == validate(validator, value, param_name)
                               IN  IF e = NoErr THEN Advance ELSE Fail(e)
       IN  IF ~IsValidator(validator)
           THEN /\ Advance
                /\ UNCHANGED <<arguments, argument_value, gens, log>>
           ELSE IF IsGenerator(argument_value)
           THEN IF ~SupportsGenerators(validator)
                THEN /\ Fail(Raise("TypeError", validator.cls, param_name, "is a generator"))
                     /\ UNCHANGED <<arguments, argument_value, gens, log>>
                ELSE IF ExhaustGenerators(validator)
                THEN LET d == list(gens, argument_value)
                     IN  IF d.hang
                         THEN /\ pc' = "hang"
                              /\ log' = Append(log, LogEntry("list", param_name, vi))
                              /\ UNCHANGED <<arguments, argument_value, gens, pi, vi, err>>
                         ELSE IF d.err # NoErr
                         THEN /\ Fail(d.err)
                              /\ gens' = d.h
                              /\ log' = Append(log, LogEntry("list", param_name, vi))
                              /\ UNCHANGED <<arguments, argument_value>>
                         ELSE /\ argument_value' = ListValue(d.items)
                              /\ arguments' = [arguments EXCEPT ![param_name] = ListValue(d.items)]
                              /\ gens' = d.h
                              /\ log' = log \o <<LogEntry("list", param_name, vi),
                                                 LogEntry("validate", param_name, vi)>>
                              /\ Validated(ListValue(d.items))
                ELSE LET w == wrap_generator(validator, gens, argument_value, param_name)
                     IN  /\ gens' = w.h
                         /\ log' = Append(log, LogEntry("wrap", param_name, vi))
                         /\ IF w.err # NoErr
                            THEN /\ Fail(w.err)
                                 /\ UNCHANGED <<arguments, argument_value>>
                            ELSE /\ arguments' = [arguments EXCEPT ![param_name] = w.value]
                                 /\ argument_value' = CarriedValue(argument_value, w.value)
                                 /\ Advance
           ELSE /\ log' = Append(log, LogEntry("validate", param_name, vi))
                /\ Validated(argument_value)
                /\ UNCHANGED <<arguments, argument_value, gens>>
    /\ UNCHANGED <<pending, func_return, result, sig, args, kwargs, events>>

\* decorators.py:61: func(*bound_args.args, **bound_args.kwargs)
Invoke ==
    /\ pc = "loop"
    /\ vi = 0
    /\ pi > Len(sig)
    /\ pc' = "body"
    /\ UNCHANGED <<pending, func_return, result, sig, args, kwargs, arguments, argument_value, pi, vi, err, gens, events, log>>

(***************************************************************************)
(* The body of the underlying callable: it may call next() on a generator  *)
(* it received, return, or let an exception it got from next() propagate.  *)
(***************************************************************************)
Pulls == LET RECURSIVE Sum(_)
             Sum(S) == IF S = {} THEN 0
                       ELSE LET n == CHOOSE n \in S : TRUE
                            IN  Len(events[n]) + Sum(S \ {n})
         IN  Sum(DOMAIN events)

Event(r) == [tag |-> r.tag, val |-> r.val, err |-> r.err]

Pull(p) ==
    /\ pc = "body"
    /\ IsGenerator(arguments[p])
    /\ Pulls < MaxPulls
    /\ LET r == GenNext(gens, arguments[p].id)
       IN  /\ gens' = r.h
           /\ events' = [events EXCEPT ![p] = Append(@, Event(r))]
    /\ UNCHANGED <<pending, func_return, result, sig, args, kwargs, arguments, argument_value, pi, vi, pc, err, log>>

Propagate(p) ==
    /\ pc = "body"
    /\ events[p] # <<>>
    /\ events[p][Len(events[p])].tag = "raise"
    /\ pc' = "failed_body"
    /\ err' = events[p][Len(events[p])].err
    /\ UNCHANGED <<pending, func_return, result, sig, args, kwargs, arguments, argument_value, pi, vi, gens, events, log>>

\* the callable returns None or one of its arguments
Return ==
    /\ pc = "body"
    /\ pc' = "returned"
    /\ \E value \in {NoneValue} \cup {arguments[p] : p \in DOMAIN arguments} :
           /\ func_return' = value
           /\ result' = ReturnOf(value)
    /\ UNCHANGED <<pending, sig, args, kwargs, arguments, argument_value, pi, vi, err, gens, events, log>>

Next ==
    \/ Bind
    \/ EnterParam
    \/ ApplyValidator
    \/ Invoke
    \/ \E p \in ParamNames : Pull(p)
    \/ \E p \in ParamNames : Propagate(p)
    \/ Return

(***************************************************************************)
(* Initial states: a wrapped callable and one call of it.                  *)
(***************************************************************************)
RuleLists(n) == SeqsUpTo(Validators, n)

IsIncreasing(s) == \A i \in DOMAIN s : \A j \in DOMAIN s : i < j => s[i] < s[j]

ValueSpec(tag, items, infinite) == [tag |-> tag, items |-> items, infinite |-> infinite]

ValueSpecs ==
    {ValueSpec("list", s, FALSE) : s \in SeqsUpTo(Elems, MaxLen)}
        \cup {ValueSpec("set", s, FALSE) : s \in {t \in SeqsUpTo(Elems, MaxLen) : IsIncreasing(t)}}
        \cup {ValueSpec("int", <<>>, FALSE)}
        \cup {ValueSpec("gen", s, FALSE) : s \in SeqsUpTo(Elems, MaxLen)}
        \cup {ValueSpec("gen", s, TRUE) : s \in {<<>>, <<1>>, <<2>>}}

SmallValueSpecs ==
    {ValueSpec("list", s, FALSE) : s \in {<<>>, <<1>>, <<1, 1>>}}
        \cup {ValueSpec("int", <<>>, FALSE)}
        \cup {ValueSpec("gen", s, FALSE) : s \in {<<>>, <<1>>, <<1, 1>>}}
        \cup {ValueSpec("gen", <<>>, TRUE)}

\* the value passed for the i-th parameter; its generator, if any, has id i
MkValue(vs, i) == IF vs.tag = "gen" THEN GenValue(i) ELSE [tag |-> vs.tag, items |-> vs.items, id |-> 0]

Orders(n) == {o \in [1..n -> 1..n] : \A i \in 1..n : \E k \in 1..n : o[k] = i}

\* a parameter without a default: name: Annotated[Any, *rules], or a bare
\* name when there are no rules
Param(name, rules) ==
    [name |-> name, annotation |-> IF rules = <<>> THEN "empty" ELSE "Annotated",
     rules |-> rules, default |-> NoDefault]

\* the state at the call f(*a, **kw), h holding the generators passed, when the
\* caller goes on to make the calls of later
InitStateThen(s, a, kw, h, later) ==
    /\ sig = s
    /\ args = a
    /\ kwargs = kw
    /\ gens = h
    /\ arguments = <<>>
    /\ argument_value = IntValue
    /\ pi = 0
    /\ vi = 0
    /\ pc = "call"
    /\ err = NoErr
    /\ events = [n \in {s[i].name : i \in 1..Len(s)} |-> <<>>]
    /\ log = <<>>
    /\ func_return = NoneValue
    /\ result = NoneValue
    /\ pending = later

\* the state at a call f(**kw)
InitState(s, kw, h) == InitStateThen(s, <<>>, kw, h, <<>>)

\* every parameter supplied by keyword, in the given order
InitCall(s, vs, order) ==
    InitState(s,
              [k \in 1..Len(s) |-> [name |-> s[order[k]].name, value |-> MkValue(vs[order[k]], order[k])]],
              [i \in {j \in 1..Len(s) : vs[j].tag = "gen"} |-> Source(vs[i].items, vs[i].infinite)])

\* def f(items: Annotated[Any, *rules])
Init ==
    \E rules \in RuleLists(MaxRules) : \E v \in ValueSpecs :
        InitCall(<<Param("items", rules)>>, <<v>>, <<1>>)

\* def configure_system(name: Annotated[..], settings: Annotated[..])
InitParams ==
    \E r1 \in RuleLists(1) : \E r2 \in RuleLists(1) :
    \E v1 \in SmallValueSpecs : \E v2 \in SmallValueSpecs : \E order \in Orders(2) :
        InitCall(<<Param("name", r1), Param("settings", r2)>>,
                 <<v1, v2>>, order)

\* def process_collection(items: Annotated[list, Unique(), ...]) called with
\* elements of several types
TypedElems == {1, 2, PyTrue, PyFloatOne}

TypedValueSpecs ==
    {ValueSpec("list", s, FALSE) : s \in SeqsUpTo(TypedElems, MaxLen)}
        \cup {ValueSpec("set", s, FALSE) :
                  s \in {t \in SeqsUpTo(TypedElems, MaxLen) :
                            IsIncreasing([i \in DOMAIN t |-> PyNum(t[i])])}}
        \cup {ValueSpec("int", <<>>, FALSE)}
        \cup {ValueSpec("gen", s, FALSE) : s \in {<<>>, <<1, 2>>, <<1, PyTrue>>}}

InitTyped ==
    \E rules \in {r \in RuleLists(MaxRules) : r # <<>> /\ r[1].cls = "Unique"} :
    \E v \in TypedValueSpecs :
        InitCall(<<Param("items", rules)>>, <<v>>, <<1>>)

\* def mixed_annotations(required: <annotation>, optional: str = "default")
Annotations ==
    {[annotation |-> a, rules |-> <<>>] : a \in {"empty", "plain"}}
        \cup {[annotation |-> "Annotated", rules |-> r] :
                  r \in SeqsUpTo(Validators \cup {Ellipsis}, MaxRules) \ {<<>>}}

Signature(a) ==
    <<[name |-> "required", annotation |-> a.annotation, rules |-> a.rules,
       default |-> NoDefault],
      [name |-> "optional", annotation |-> "plain", rules |-> <<>>,
       default |-> ListValue(<<1, 2>>)]>>

\* calls that bind (required alone, required and optional) and calls that do
\* not (a keyword that names no parameter, required left out)
Calls(v) ==
    {<<[name |-> "required", value |-> v]>>,
     <<[name |-> "optional", value |-> ListValue(<<>>)], [name |-> "required", value |-> v]>>,
     <<[name |-> "required", value |-> v], [name |-> "extra", value |-> IntValue]>>,
     <<[name |-> "optional", value |-> v]>>,
     <<>>}

InitSig ==
    \E a \in Annotations : \E v \in SmallValueSpecs : \E kw \in Calls(MkValue(v, 1)) :
        InitState(Signature(a), kw,
                  [i \in {j \in {1} : v.tag = "gen"} |-> Source(v.items, v.infinite)])

\* the caller calls the wrapped callable again, with new generators, once
\* the call before has returned or raised; vs are the arguments in the order
\* of the signature
CallAgain ==
    /\ pc \in {"returned", "failed_body", "failed_call"}
    /\ pending # <<>>
    /\ LET vs == Head(pending)
           base == NewId(gens) - 1
           fresh == {base + j : j \in {i \in DOMAIN vs : vs[i].tag = "gen"}}
       IN  /\ kwargs' = [k \in DOMAIN sig |->
                            [name |-> sig[k].name, value |-> MkValue(vs[k], base + k)]]
           /\ gens' = [id \in DOMAIN gens \cup fresh |->
                          IF id \in DOMAIN gens THEN gens[id]
                          ELSE Source(vs[id - base].items, vs[id - base].infinite)]
    /\ pending' = Tail(pending)
    /\ args' = <<>>
    /\ arguments' = <<>>
    /\ argument_value' = IntValue
    /\ pi' = 0
    /\ vi' = 0
    /\ pc' = "call"
    /\ err' = NoErr
    /\ events' = [n \in DOMAIN events |-> <<>>]
    /\ log' = <<>>
    /\ func_return' = NoneValue
    /\ result' = NoneValue
    /\ UNCHANGED sig

\* shared = Unique(...); def configure_system(name: Annotated[Any, shared],
\* settings: Annotated[Any, shared]), called once or twice with generators
Streams == {ValueSpec("gen", s, FALSE) : s \in {<<1>>, <<1, 1>>, <<1, 2>>}}

InitShared ==
    \E shared \in {v \in Validators : v.cls = "Unique"} :
    \E v1 \in Streams : \E v2 \in Streams :
    \E later \in {<<>>} \cup {<<(<<w1, w2>>)>> : w1 \in Streams, w2 \in Streams} :
        InitStateThen(<<Param("name", <<shared>>), Param("settings", <<shared>>)>>,
                      <<>>,
                      [k \in 1..2 |-> [name |-> <<"name", "settings">>[k],
                                       value |-> MkValue(<<v1, v2>>[k], k)]],
                      [i \in 1..2 |-> Source(<<v1, v2>>[i].items, FALSE)],
                      later)

NextShared == Next \/ CallAgain

\* def f(required: Annotated[Any, *r1], optional: Annotated[Any, *r2] = default)
\* called with required only or with both, each positionally or by keyword,
\* and with a value too many
Defaults == {ListValue(<<>>), ListValue(<<1>>), ListValue(<<1, 1>>), IntValue}

CallsWithDefaults(v) ==
    LET kw(n, x) == [name |-> n, value |-> x]
    IN  {[args |-> <<v>>, kwargs |-> <<>>],
         [args |-> <<>>, kwargs |-> <<kw("required", v)>>],
         [args |-> <<v>>, kwargs |-> <<kw("required", v)>>]}
            \cup {[args |-> <<v, w>>, kwargs |-> <<>>] : w \in Defaults}
            \cup {[args |-> <<v>>, kwargs |-> <<kw("optional", w)>>] : w \in Defaults}
            \cup {[args |-> <<>>, kwargs |-> <<kw("optional", w), kw("required", v)>>] : w \in Defaults}
            \cup {[args |-> <<v, w, w>>, kwargs |-> <<>>] : w \in {IntValue}}

InitDefaults ==
    \E r1 \in RuleLists(1) : \E r2 \in RuleLists(1) \ {<<>>} : \E d \in Defaults :
    \E v \in SmallValueSpecs : \E c \in CallsWithDefaults(MkValue(v, 1)) :
        InitStateThen(<<Param("required", r1),
                        [name |-> "optional", annotation |-> "Annotated", rules |-> r2,
                         default |-> d]>>,
                      c.args, c.kwargs,
                      [i \in {j \in {1} : v.tag = "gen"} |-> Source(v.items, v.infinite)],
                      <<>>)

Spec == Init /\ [][Next]_vars

SpecDefaults == InitDefaults /\ [][Next]_vars

SpecShared == InitShared /\ [][NextShared]_vars

SpecSig == InitSig /\ [][Next]_vars

SpecTyped == InitTyped /\ [][Next]_vars

SpecParams == InitParams /\ [][Next]_vars

(***************************************************************************)
(* The engine is straight-line code of one thread: from the call to the    *)
(* invocation of the callable it takes its next step whenever it has one.  *)
(* The body of the callable is free to stop pulling.                       *)
(***************************************************************************)
Engine == Bind \/ EnterParam \/ ApplyValidator \/ Invoke

\* def f(items: Annotated[Any, *rules]) called with one of a few arguments
InitLive ==
    \E rules \in RuleLists(MaxRules) : \E v \in SmallValueSpecs :
        InitCall(<<Param("items", rules)>>, <<v>>, <<1>>)

SpecLive == InitLive /\ [][Next]_vars /\ WF_vars(Engine)

(***************************************************************************)
(* Vocabulary of the properties                                            *)
(***************************************************************************)
IndexOf(n) == CHOOSE i \in DOMAIN sig : sig[i].name = n

RulesOf(n) == sig[IndexOf(n)].rules

\* the value the caller supplied for parameter n
Supplied(n) == (CHOOSE k \in DOMAIN kwargs : kwargs[k].name = n)

SuppliedValue(n) == kwargs[Supplied(n)].value

IsStreamParam(n) == IsGenerator(SuppliedValue(n))

\* the generator the caller supplied for parameter n
SourceGen(n) == gens[SuppliedValue(n).id]

IsLazyRule(r) == IsGeneratorValidator(r) /\ ~r.exhaust_generators

IsEagerRule(r) == IsGeneratorValidator(r) /\ r.exhaust_generators

AllLazy(n) == \A i \in DOMAIN RulesOf(n) : IsLazyRule(RulesOf(n)[i])

Invoked == pc \in {"body", "returned", "failed_body"}

\* the i-th element (from 1) a source generator produces
SrcElem(g, i) == IF i <= Len(g.items) THEN g.items[i] ELSE i - Len(g.items) - 1

\* the first i for which element i + 1 repeats an earlier one, or -1
FirstDup(g) ==
    LET n == IF g.infinite THEN Len(g.items) + MaxElem + 1 ELSE Len(g.items)
        dups == {k \in 1..n : \E j \in 1..(k - 1) : SrcElem(g, j) = SrcElem(g, k)}
    IN  IF dups = {} THEN -1 ELSE (CHOOSE k \in dups : \A d \in dups : k <= d) - 1

IsEmptyStream(g) == ~g.infinite /\ g.items = <<>>

\* the generators from the one the callable received down to the source
RECURSIVE ChainKinds(_, _)
ChainKinds(h, id) ==
    IF h[id].kind = "source" THEN <<>>
    ELSE Append(ChainKinds(h, h[id].gen), h[id].kind)

Consumed(n) == events[n] # <<>> /\ events[n][Len(events[n])].tag = "stop"

Yielded(n) == {i \in DOMAIN events[n] : events[n][i].tag = "yield"}

Raised(n) == {i \in DOMAIN events[n] : events[n][i].tag = "raise"}

(***************************************************************************)
(* C1: when a generator argument has two or more lazy generator validators *)
(* [R1, R2, ...], the callable receives the chain R1's wrapper, read by    *)
(* R2's wrapper, and so on, over the generator passed in; so a generator   *)
(* that the body consumed to its end without an exception satisfies every  *)
(* rule of the list (it is not empty if NotEmpty is in the list, it has no *)
(* repeated element if Unique is).                                         *)
(***************************************************************************)
C1_Case(n) == IsStreamParam(n) /\ Len(RulesOf(n)) >= 2 /\ AllLazy(n)

C1_LazyRulesAreChained ==
    \A n \in ParamNames :
        (C1_Case(n) /\ Invoked) =>
            /\ ChainKinds(gens, arguments[n].id) = [i \in DOMAIN RulesOf(n) |-> RulesOf(n)[i].cls]
            /\ (Consumed(n) /\ Raised(n) = {}) =>
                   /\ (\E i \in DOMAIN RulesOf(n) : RulesOf(n)[i].cls = "NotEmpty")
                          => ~IsEmptyStream(SourceGen(n))
                   /\ (\E i \in DOMAIN RulesOf(n) : RulesOf(n)[i].cls = "Unique")
                          => FirstDup(SourceGen(n)) = -1

(***************************************************************************)
(* C2 (as claimed): if a parameter whose argument is a generator has a validator that   *)
(* is not a GeneratorValidator, wherever it stands in the list and         *)
(* whatever the validators before it are, the call ends with the TypeError *)
(* "is a generator" naming the parameter and that validator, the callable  *)
(* is not invoked and the generator has not been advanced.                 *)
(***************************************************************************)
C2_Case(n) ==
    IsStreamParam(n) /\ \E i \in DOMAIN RulesOf(n) : ~IsGeneratorValidator(RulesOf(n)[i])

C2_PlainRuleOnStreamIsUsageError ==
    \A n \in ParamNames :
        C2_Case(n) =>
            /\ ~Invoked
            /\ pc # "hang"
            /\ SourceGen(n).pos = 0
            /\ pc = "failed_call" =>
                   /\ err.exc = "TypeError"
                   /\ err.msg = "is a generator"
                   /\ err.param = n
                   /\ ~IsGeneratorValidator([cls |-> err.rule])

(***************************************************************************)
(* C2 (amended): the same, for a validator that is not a                   *)
(* GeneratorValidator and has only lazy validators declared before it.     *)
(* (After an eager validator the argument is a list, and the validators    *)
(* after it are applied to the list by validate.)                          *)
(***************************************************************************)
C2_LazyCase(n) ==
    /\ IsStreamParam(n)
    /\ \E i \in DOMAIN RulesOf(n) :
           /\ ~IsGeneratorValidator(RulesOf(n)[i])
           /\ \A j \in 1..(i - 1) : IsLazyRule(RulesOf(n)[j])

C2_PlainRuleAfterLazyRulesIsUsageError ==
    \A n \in ParamNames :
        C2_LazyCase(n) =>
            /\ ~Invoked
            /\ pc # "hang"
            /\ SourceGen(n).pos = 0
            /\ SourceGen(n).pc = "created"
            /\ pc = "failed_call" =>
                   /\ err.exc = "TypeError"
                   /\ err.msg = "is a generator"
                   /\ err.param = n
                   /\ ~IsGeneratorValidator([cls |-> err.rule])

C2_Witness ==
    /\ C2_LazyCase("items")
    /\ RulesOf("items") = <<[cls |-> "Unique", exhaust_generators |-> FALSE],
                            [cls |-> "NonGeneratorValidator", exhaust_generators |-> FALSE]>>
    /\ SourceGen("items").items = <<1, 1>>
    /\ pc = "failed_call"
    /\ err.rule = "NonGeneratorValidator"

(***************************************************************************)
(* C3 (as claimed): with a lazy NotEmpty on a generator that is already    *)
(* exhausted, the call itself raises the ValidationError: the underlying   *)
(* callable is never invoked.                                              *)
(***************************************************************************)
LastRule(n) == RulesOf(n)[Len(RulesOf(n))]

C3_Case(n) ==
    /\ IsStreamParam(n)
    /\ IsEmptyStream(SourceGen(n))
    /\ RulesOf(n) # <<>>
    /\ AllLazy(n)
    /\ LastRule(n).cls = "NotEmpty"

NotEmptyError(n) == Raise("ValidationError", "NotEmpty", n, "cannot be empty")

C4_Case(n) ==
    /\ IsStreamParam(n)
    /\ \A i \in DOMAIN RulesOf(n) : ~RulesOf(n)[i].exhaust_generators

C4_LazyWrappingPullsNothing ==
    \A n \in ParamNames :
        (C4_Case(n) /\ events[n] = <<>>) =>
            /\ SourceGen(n).pos = 0
            /\ SourceGen(n).pc = "created"
            /\ pc # "hang"

C4_Witness ==
    /\ C4_Case("items")
    /\ Len(RulesOf("items")) = 2
    /\ AllLazy("items")
    /\ SourceGen("items").infinite
    /\ pc = "body"
    /\ events["items"] = <<>>

(***************************************************************************)
(* C5: the body reads a lazy Unique wrapper over a generator whose first   *)
(* repeated element is at position k (from 0).  Its first k next() calls   *)
(* yield elements 0..k-1 of the generator in order, the next one raises    *)
(* the ValidationError, and the generator is never advanced past           *)
(* position k.                                                             *)
(***************************************************************************)
UniqueError(n) == Raise("ValidationError", "Unique", n, "must contain unique elements")

C5_Case(n) ==
    /\ IsStreamParam(n)
    /\ Invoked
    /\ IsGenerator(arguments[n])
    /\ gens[arguments[n].id].kind = "Unique"
    /\ gens[arguments[n].id].gen = SuppliedValue(n).id
    /\ FirstDup(SourceGen(n)) >= 0

C5_UniqueFailsAtFirstDuplicate ==
    \A n \in ParamNames :
        C5_Case(n) =>
            LET k == FirstDup(SourceGen(n))
            IN  /\ \A i \in DOMAIN events[n] :
                       /\ i <= k => /\ events[n][i].tag = "yield"
                                    /\ events[n][i].val = SrcElem(SourceGen(n), i)
                       /\ i = k + 1 => /\ events[n][i].tag = "raise"
                                       /\ events[n][i].err = UniqueError(n)
                /\ SourceGen(n).pos <= k + 1

C5_Witness ==
    /\ C5_Case("items")
    /\ FirstDup(SourceGen("items")) = 2
    /\ Len(events["items"]) = 3
    /\ events["items"][3].tag = "raise"
    /\ SourceGen("items").pos = 3

(***************************************************************************)
(* C6: while the body consumes a generator argument whose validators are   *)
(* all lazy, the generator passed in has been advanced at most as many     *)
(* times as the body called next(), plus one element of lookahead when     *)
(* NotEmpty is among the validators; and it is advanced only in a step in  *)
(* which the body calls next(), so once the body stops it stays where it   *)
(* is.                                                                     *)
(***************************************************************************)
C6_Case(n) == IsStreamParam(n) /\ AllLazy(n)

Lookahead(n) ==
    IF \E i \in DOMAIN RulesOf(n) : RulesOf(n)[i].cls = "NotEmpty" THEN 1 ELSE 0

C6_Bounded ==
    \A n \in ParamNames :
        C6_Case(n) => SourceGen(n).pos <= Len(events[n]) + Lookahead(n)

C6_AdvancedOnlyByPull ==
    \A n \in ParamNames :
        (C6_Case(n) /\ gens'[SuppliedValue(n).id] # gens[SuppliedValue(n).id])
            => Len(events'[n]) = Len(events[n]) + 1

C6_NoOverrun == []C6_Bounded /\ [][C6_AdvancedOnlyByPull]_vars

C6_Witness ==
    /\ C6_Case("items")
    /\ Lookahead("items") = 1
    /\ pc = "returned"
    /\ SourceGen("items").pos = 2
    /\ Len(events["items"]) = 2
    /\ Len(SourceGen("items").items) = 3

(***************************************************************************)
(* C7: an infinite generator of pairwise distinct elements (0, 1, 2, ...)  *)
(* under lazy Unique or lazy NotEmpty: the call neither hangs nor fails,   *)
(* and the N-th next() of the body yields the N-th element of the          *)
(* generator, for every N the body asks for.                               *)
(***************************************************************************)
C7_Case(n) ==
    /\ IsStreamParam(n)
    /\ SourceGen(n).infinite
    /\ SourceGen(n).items = <<>>
    /\ RulesOf(n) # <<>>
    /\ AllLazy(n)

C7_InfiniteUniqueStreamPassesThrough ==
    \A n \in ParamNames :
        C7_Case(n) =>
            /\ pc \notin {"hang", "failed_call", "failed_body"}
            /\ \A i \in DOMAIN events[n] :
                   /\ events[n][i].tag = "yield"
                   /\ events[n][i].val = i - 1
            /\ SourceGen(n).pos = Len(events[n])

C7_Witness ==
    /\ C7_Case("items")
    /\ RulesOf("items") = <<[cls |-> "Unique", exhaust_generators |-> FALSE]>>
    /\ Len(events["items"]) >= 3
    /\ events["items"][3].val = 2

(***************************************************************************)
(* C8: the parameters are checked in the order of the signature.  When a   *)
(* materialized argument fails a validator the callable is not invoked;    *)
(* the call ends with the failure of the earliest declared failing         *)
(* parameter (or with an earlier parameter's failure), in whatever order   *)
(* the keyword arguments were supplied, and nothing has been done to any   *)
(* parameter declared after the one that failed.                           *)
(***************************************************************************)
MatFailure(i) ==
    LET n == sig[i].name
        rs == sig[i].rules
        failing == {j \in DOMAIN rs : validate(rs[j], SuppliedValue(n), n) # NoErr}
    IN  IF IsStreamParam(n) \/ failing = {} THEN NoErr
        ELSE validate(rs[CHOOSE j \in failing : \A l \in failing : j <= l], SuppliedValue(n), n)

FailingParams == {i \in DOMAIN sig : MatFailure(i) # NoErr}

C8_FirstFailingParameterAborts ==
    /\ FailingParams # {} => ~Invoked
    /\ pc = "failed_call" =>
           LET i == IndexOf(err.param)
           IN  /\ \A k \in DOMAIN log : IndexOf(log[k].param) <= i
               /\ \A j \in DOMAIN sig :
                      j > i => /\ arguments[sig[j].name] = SuppliedValue(sig[j].name)
                               /\ IsStreamParam(sig[j].name) => SourceGen(sig[j].name).pc = "created"
               /\ \A f \in FailingParams : i <= f
               /\ i \in FailingParams => err = MatFailure(i)

C8_Witness ==
    /\ pc = "failed_call"
    /\ FailingParams = {1, 2}
    /\ kwargs[1].name = "settings"
    /\ err.param = "name"
    /\ log = <<LogEntry("validate", "name", 1)>>

(***************************************************************************)
(* C9: a materialized value that fails both R1 and R2 of a parameter with  *)
(* validators [R1, R2, ...]: the call ends with R1's failure, validate has *)
(* been called once, for R1, and the callable is not invoked.              *)
(***************************************************************************)
C9_Case(n) ==
    /\ ~IsStreamParam(n)
    /\ Len(RulesOf(n)) >= 2
    /\ validate(RulesOf(n)[1], SuppliedValue(n), n) # NoErr
    /\ validate(RulesOf(n)[2], SuppliedValue(n), n) # NoErr

C9_FirstRuleFailureShortCircuits ==
    \A n \in ParamNames :
        C9_Case(n) =>
            /\ ~Invoked
            /\ pc = "failed_call" =>
                   /\ err = validate(RulesOf(n)[1], SuppliedValue(n), n)
                   /\ log = <<LogEntry("validate", n, 1)>>

C9_Witness ==
    /\ C9_Case("items")
    /\ RulesOf("items")[1].cls = "NotEmpty"
    /\ RulesOf("items")[2].cls = "Unique"
    /\ pc = "failed_call"
    /\ err.rule = "NotEmpty"

(***************************************************************************)
(* C10: a finite generator under an eager validator, when the call reaches *)
(* the callable: the generator has been drained to its end and the         *)
(* callable receives a list of all its elements in the order produced.     *)
(***************************************************************************)
C10_Case(n) ==
    /\ IsStreamParam(n)
    /\ ~SourceGen(n).infinite
    /\ \E i \in DOMAIN RulesOf(n) : IsEagerRule(RulesOf(n)[i])
    /\ Invoked

C10_EagerMaterializesInOrder ==
    \A n \in ParamNames :
        C10_Case(n) =>
            /\ arguments[n] = ListValue(SourceGen(n).items)
            /\ SourceGen(n).pc = "closed"
            /\ SourceGen(n).pos = Len(SourceGen(n).items)

C10_Witness ==
    /\ C10_Case("items")
    /\ RulesOf("items") = <<[cls |-> "Unique", exhaust_generators |-> TRUE]>>
    /\ pc = "body"
    /\ arguments["items"] = ListValue(<<2, 1>>)

(***************************************************************************)
(* C11: a finite generator under an eager validator (the validators before *)
(* it lazy) whose list of elements violates that validator, empty for      *)
(* NotEmpty, with a repeated element for Unique: the call itself ends with *)
(* the ValidationError of that validator, after the generator has been     *)
(* drained to its end, and the callable is not invoked.  An empty          *)
(* generator under eager Unique does not fail and arrives as [].           *)
(***************************************************************************)
EagerViolation(n, i) ==
    /\ IsEagerRule(RulesOf(n)[i])
    /\ \A j \in 1..(i - 1) : IsLazyRule(RulesOf(n)[j])
    /\ \/ RulesOf(n)[i].cls = "NotEmpty" /\ SourceGen(n).items = <<>>
       \/ RulesOf(n)[i].cls = "Unique" /\ FirstDup(SourceGen(n)) >= 0

C11_Case(n) ==
    /\ IsStreamParam(n)
    /\ ~SourceGen(n).infinite
    /\ \E i \in DOMAIN RulesOf(n) : EagerViolation(n, i)

C11_EagerFailureAtCallTime ==
    \A n \in ParamNames :
        /\ C11_Case(n) =>
               LET i == CHOOSE i \in DOMAIN RulesOf(n) : EagerViolation(n, i)
               IN  /\ ~Invoked
                   /\ pc # "hang"
                   /\ pc = "failed_call" =>
                          /\ err = Raise("ValidationError", RulesOf(n)[i].cls, n, err.msg)
                          /\ err.msg = IF RulesOf(n)[i].cls = "NotEmpty"
                                       THEN "cannot be empty" ELSE "must contain unique elements"
                          /\ SourceGen(n).pc = "closed"
                          /\ SourceGen(n).pos = Len(SourceGen(n).items)
                          /\ events[n] = <<>>
        /\ ( /\ IsStreamParam(n)
             /\ IsEmptyStream(SourceGen(n))
             /\ RulesOf(n) = <<[cls |-> "Unique", exhaust_generators |-> TRUE]>> ) =>
               /\ pc # "failed_call"
               /\ Invoked => arguments[n] = ListValue(<<>>)

C11_Witness ==
    /\ C11_Case("items")
    /\ RulesOf("items") = <<[cls |-> "Unique", exhaust_generators |-> TRUE]>>
    /\ SourceGen("items").items = <<1, 2, 1>>
    /\ pc = "failed_call"
    /\ err = UniqueError("items")
    /\ SourceGen("items").pc = "closed"

(***************************************************************************)
(* C12: a finite generator that is not empty and has no repeated element,  *)
(* under lazy NotEmpty and lazy Unique in either order: the next() calls   *)
(* of the body yield exactly the elements of the generator, in order, then *)
(* report the end; nothing raises.                                         *)
(***************************************************************************)
C12_Case(n) ==
    /\ IsStreamParam(n)
    /\ ~SourceGen(n).infinite
    /\ SourceGen(n).items # <<>>
    /\ FirstDup(SourceGen(n)) = -1
    /\ Len(RulesOf(n)) = 2
    /\ AllLazy(n)
    /\ {RulesOf(n)[1].cls, RulesOf(n)[2].cls} = {"NotEmpty", "Unique"}

C12_PassThrough ==
    \A n \in ParamNames :
        C12_Case(n) =>
            /\ pc \notin {"failed_call", "failed_body", "hang"}
            /\ \A i \in DOMAIN events[n] :
                   IF i <= Len(SourceGen(n).items)
                   THEN /\ events[n][i].tag = "yield"
                        /\ events[n][i].val = SourceGen(n).items[i]
                   ELSE events[n][i].tag = "stop"

C12_Witness ==
    /\ C12_Case("items")
    /\ RulesOf("items")[1].cls = "Unique"
    /\ SourceGen("items").items = <<2, 1>>
    /\ Len(events["items"]) = 3
    /\ events["items"][3].tag = "stop"
    /\ pc = "returned"

(***************************************************************************)
(* C13: a generator argument with lazy validators only.  The call never    *)
(* fails or hangs before the callable: the callable is invoked, also for   *)
(* an empty generator or one with repeated elements, and receives a        *)
(* wrapper generator (not the generator passed in).  An exception of the   *)
(* call is a ValidationError that a next() of the body raised.             *)
(***************************************************************************)
C13_Case(n) == IsStreamParam(n) /\ RulesOf(n) # <<>> /\ AllLazy(n)

C13_Safe ==
    \A n \in ParamNames :
        C13_Case(n) =>
            /\ pc \notin {"failed_call", "hang"}
            /\ Invoked =>
                   /\ IsGenerator(arguments[n])
                   /\ arguments[n].id # SuppliedValue(n).id
                   /\ gens[arguments[n].id].kind = LastRule(n).cls
            /\ err # NoErr =>
                   /\ pc = "failed_body"
                   /\ err.exc = "ValidationError"
                   /\ events[n] # <<>>
                   /\ events[n][Len(events[n])].tag = "raise"
                   /\ events[n][Len(events[n])].err = err

C13_Some == \E n \in ParamNames : C13_Case(n)

C13_BodyAlwaysRuns == []C13_Safe /\ (C13_Some ~> Invoked)

C13_Witness ==
    /\ C13_Case("items")
    /\ IsEmptyStream(SourceGen("items"))
    /\ pc = "failed_body"
    /\ err = NotEmptyError("items")
    /\ Len(events["items"]) = 1

(***************************************************************************)
(* C20: when no validator of a generator argument is eager, the engine     *)
(* always comes to the invocation of the callable or to a failure and      *)
(* never hangs, whatever the length of the generator.  With an eager       *)
(* validator on an infinite generator the callable is never invoked, and   *)
(* the call hangs in list() when the eager validator is reached, for       *)
(* NotEmpty as for Unique.                                                 *)
(***************************************************************************)
C20_NoEagerRule ==
    \A n \in ParamNames :
        IsStreamParam(n) => \A i \in DOMAIN RulesOf(n) : ~RulesOf(n)[i].exhaust_generators

C20_EagerOnInfinite(n) ==
    /\ IsStreamParam(n)
    /\ SourceGen(n).infinite
    /\ \E i \in DOMAIN RulesOf(n) : IsEagerRule(RulesOf(n)[i])

C20_EagerReached ==
    \E n \in ParamNames :
        /\ C20_EagerOnInfinite(n)
        /\ \A i \in DOMAIN RulesOf(n) : IsGeneratorValidator(RulesOf(n)[i])

C20_Safe ==
    /\ C20_NoEagerRule => pc # "hang"
    /\ \A n \in ParamNames : C20_EagerOnInfinite(n) => ~Invoked

C20_OnlyEagerModeDiverges ==
    /\ []C20_Safe
    /\ C20_NoEagerRule ~> (Invoked \/ pc = "failed_call")
    /\ C20_EagerReached ~> (pc = "hang")

C20_Witness ==
    /\ C20_EagerOnInfinite("items")
    /\ RulesOf("items") = <<[cls |-> "NotEmpty", exhaust_generators |-> TRUE]>>
    /\ pc = "hang"

(***************************************************************************)
(* C14: a GeneratorValidator on an argument that is not a generator acts   *)
(* as a plain validator.  Nothing is wrapped or turned into a list, the    *)
(* only calls are validate calls, the argument stays the value passed in,  *)
(* and the call fails with the first failure of validate in the order of   *)
(* the validators, the same whatever the exhaust flags are, or reaches the *)
(* callable when validate accepts the value for each of them.              *)
(***************************************************************************)
C14_Case(n) ==
    /\ ~IsStreamParam(n)
    /\ RulesOf(n) # <<>>
    /\ \A i \in DOMAIN RulesOf(n) : IsGeneratorValidator(RulesOf(n)[i])

\* what validate says for the i-th validator, its exhaust flag put aside
C14_Plain(n, i) ==
    validate([cls |-> RulesOf(n)[i].cls, exhaust_generators |-> FALSE], SuppliedValue(n), n)

C14_Expected(n) ==
    LET failing == {i \in DOMAIN RulesOf(n) : C14_Plain(n, i) # NoErr}
    IN  IF failing = {} THEN NoErr
        ELSE C14_Plain(n, CHOOSE i \in failing : \A j \in failing : i <= j)

C14_StreamRuleOnMaterializedValue ==
    \A n \in ParamNames :
        C14_Case(n) =>
            /\ pc # "call" => arguments[n] = SuppliedValue(n)
            /\ DOMAIN gens = {}
            /\ \A k \in DOMAIN log : log[k].op = "validate"
            /\ pc # "hang"
            /\ C14_Expected(n) # NoErr =>
                   /\ ~Invoked
                   /\ pc = "failed_call" => err = C14_Expected(n)
            /\ C14_Expected(n) = NoErr => pc # "failed_call"

C14_Witness ==
    /\ C14_Case("items")
    /\ RulesOf("items") = <<[cls |-> "NotEmpty", exhaust_generators |-> TRUE],
                            [cls |-> "Unique", exhaust_generators |-> TRUE]>>
    /\ SuppliedValue("items") = ListValue(<<1, 1>>)
    /\ pc = "failed_call"
    /\ err = UniqueError("items")
    /\ Len(log) = 2

(***************************************************************************)
(* C16: NotEmpty as the first validator of an argument that is not a       *)
(* generator.  A value with len() = 0 ends the call with NotEmpty's        *)
(* ValidationError; a value without len() (an int) ends it with NotEmpty's *)
(* TypeError, not a ValidationError; for a value with len() >= 1 NotEmpty  *)
(* raises nothing.  The callable is invoked in the last case only.         *)
(***************************************************************************)
C16_Case(n) ==
    /\ ~IsStreamParam(n)
    /\ RulesOf(n) # <<>>
    /\ RulesOf(n)[1].cls = "NotEmpty"

C16_NotEmptyValidate ==
    \A n \in ParamNames :
        C16_Case(n) =>
            LET v == SuppliedValue(n)
            IN  /\ (v.tag \in {"list", "set"} /\ Len(v.items) = 0) =>
                       /\ ~Invoked
                       /\ pc = "failed_call" => err = NotEmptyError(n)
                /\ v.tag = "int" =>
                       /\ ~Invoked
                       /\ pc = "failed_call" =>
                              /\ err.exc = "TypeError"
                              /\ err.rule = "NotEmpty"
                              /\ err.param = n
                /\ (v.tag \in {"list", "set"} /\ Len(v.items) >= 1) =>
                       /\ err.rule # "NotEmpty"
                       /\ Len(RulesOf(n)) = 1 => pc # "failed_call"

C16_Witness ==
    /\ C16_Case("items")
    /\ SuppliedValue("items") = IntValue
    /\ pc = "failed_call"
    /\ err.exc = "TypeError"
    /\ err.rule = "NotEmpty"

(***************************************************************************)
(* C19: a finite generator with a lazy validator R1 declared before an     *)
(* eager validator R2.  The eager validator drains R1's wrapper: a         *)
(* generator that violates R1 (empty for NotEmpty, a repeated element for  *)
(* Unique) ends the call with R1's ValidationError, so the callable is not *)
(* invoked with it.                                                        *)
(***************************************************************************)
C19_Case(n) ==
    /\ IsStreamParam(n)
    /\ ~SourceGen(n).infinite
    /\ Len(RulesOf(n)) >= 2
    /\ IsLazyRule(RulesOf(n)[1])
    /\ IsEagerRule(RulesOf(n)[2])

C19_ViolatesFirst(n) ==
    \/ RulesOf(n)[1].cls = "NotEmpty" /\ SourceGen(n).items = <<>>
    \/ RulesOf(n)[1].cls = "Unique" /\ FirstDup(SourceGen(n)) >= 0

C19_EagerDrainsTheWrapper ==
    \A n \in ParamNames :
        (C19_Case(n) /\ C19_ViolatesFirst(n)) =>
            /\ ~Invoked
            /\ pc = "failed_call" =>
                   /\ err.exc = "ValidationError"
                   /\ err.rule = RulesOf(n)[1].cls

(***************************************************************************)
(* C15: Unique as the first validator of an argument that is not a         *)
(* generator.  A list with two elements that are equal in Python's sense   *)
(* (1, True and 1.0 are equal) ends the call with Unique's                 *)
(* ValidationError; for a list without such a pair, so for an empty and a  *)
(* one-element list, and for every set, Unique raises nothing; an int ends *)
(* the call with Unique's TypeError, not a ValidationError.                *)
(***************************************************************************)
C15_Case(n) ==
    /\ ~IsStreamParam(n)
    /\ RulesOf(n) # <<>>
    /\ RulesOf(n)[1].cls = "Unique"

C15_HasEqualPair(items) ==
    \E i \in DOMAIN items : \E j \in DOMAIN items : i < j /\ PyEq(items[i], items[j])

C15_UniqueValidate ==
    \A n \in ParamNames :
        C15_Case(n) =>
            LET v == SuppliedValue(n)
            IN  /\ (v.tag = "list" /\ C15_HasEqualPair(v.items)) =>
                       /\ ~Invoked
                       /\ pc = "failed_call" => err = UniqueError(n)
                /\ (v.tag = "set" \/ (v.tag = "list" /\ ~C15_HasEqualPair(v.items))) =>
                       /\ err.rule # "Unique"
                       /\ Len(RulesOf(n)) = 1 => pc # "failed_call"
                /\ (v.tag = "list" /\ Len(v.items) <= 1) => err.rule # "Unique"
                /\ v.tag = "int" =>
                       /\ ~Invoked
                       /\ pc = "failed_call" =>
                              /\ err.exc = "TypeError"
                              /\ err.rule = "Unique"
                              /\ err.param = n

C15_Witness ==
    /\ C15_Case("items")
    /\ SuppliedValue("items") = ListValue(<<1, PyTrue, PyFloatOne>>)
    /\ pc = "failed_call"
    /\ err = UniqueError("items")

(***************************************************************************)
(* C17: what the engine does not validate it leaves alone.  A parameter    *)
(* without annotation, with an annotation that is not Annotated, or whose  *)
(* Annotated metadata holds no Validator is never validated or wrapped, no *)
(* failure of the call names it, and the callable receives the value that  *)
(* was passed (or the default); an argument that is not a generator        *)
(* reaches the callable as it was passed; the wrapped callable returns     *)
(* what the callable returned, and an exception leaving the body is the    *)
(* one the body got.                                                       *)
(***************************************************************************)
C17_NotValidated(n) ==
    \/ sig[IndexOf(n)].annotation # "Annotated"
    \/ \A i \in DOMAIN RulesOf(n) : RulesOf(n)[i] = Ellipsis

\* the value bound to parameter n: the one supplied, or the default
C17_PassedValue(n) ==
    IF \E k \in DOMAIN kwargs : kwargs[k].name = n
    THEN SuppliedValue(n)
    ELSE sig[IndexOf(n)].default

C17_LastEventErr ==
    {events[n][Len(events[n])].err : n \in {m \in DOMAIN events : events[m] # <<>>}}

C17_FrameOfTheEngine ==
    /\ \A n \in ParamNames :
           /\ C17_NotValidated(n) =>
                  /\ \A k \in DOMAIN log : log[k].param # n
                  /\ err.param # n
                  /\ n \in DOMAIN arguments => arguments[n] = C17_PassedValue(n)
           /\ (Invoked /\ ~IsGenerator(C17_PassedValue(n))) =>
                  arguments[n] = C17_PassedValue(n)
    /\ pc = "returned" => result = func_return
    /\ pc # "returned" => result = NoneValue
    /\ pc = "failed_body" => err \in C17_LastEventErr

C17_Witness ==
    /\ sig[1].rules = <<Ellipsis>>
    /\ kwargs = <<[name |-> "required", value |-> IntValue]>>
    /\ pc = "returned"
    /\ result = IntValue
    /\ log = <<>>

(***************************************************************************)
(* C18: a call whose arguments do not bind to the signature (a parameter   *)
(* without default left out, or a keyword that names no parameter) fails   *)
(* with a TypeError before anything else happens: no validator has been    *)
(* called, no generator wrapped, pulled or turned into a list, and the     *)
(* callable is not invoked.                                                *)
(***************************************************************************)
C18_Mismatch ==
    \/ \E k \in DOMAIN kwargs : \A i \in DOMAIN sig : sig[i].name # kwargs[k].name
    \/ \E i \in DOMAIN sig :
           /\ sig[i].default = NoDefault
           /\ \A k \in DOMAIN kwargs : kwargs[k].name # sig[i].name

C18_BindingFailsFirst ==
    C18_Mismatch =>
        /\ pc \in {"call", "failed_call"}
        /\ pc = "failed_call" => err.exc = "TypeError"
        /\ log = <<>>
        /\ \A id \in DOMAIN gens : gens[id].kind = "source" /\ gens[id].pos = 0
        /\ \A n \in DOMAIN events : events[n] = <<>>

C18_Witness ==
    /\ C18_Mismatch
    /\ \E k \in DOMAIN kwargs : kwargs[k].name = "extra"
    /\ IsGenerator(SuppliedValue("required"))
    /\ sig[1].rules = <<[cls |-> "NotEmpty", exhaust_generators |-> TRUE]>>
    /\ pc = "failed_call"
    /\ err.exc = "TypeError"

(***************************************************************************)
(* C21: the body reads a lazy Unique wrapper over the generator passed in  *)
(* and goes on calling next() after the ValidationError.  The wrapper is   *)
(* finished: it raises at most once, every next() after the raise (and     *)
(* after a StopIteration) ends with StopIteration, and the generator       *)
(* passed in stays at the repeated element.  At every moment the elements  *)
(* the body received are the first elements of the generator, in order,    *)
(* and no two of them are equal.                                           *)
(***************************************************************************)
C21_Case(n) ==
    /\ IsStreamParam(n)
    /\ Invoked
    /\ IsGenerator(arguments[n])
    /\ gens[arguments[n].id].kind = "Unique"
    /\ gens[arguments[n].id].gen = SuppliedValue(n).id

C21_UniqueWrapperEndsAtItsFailure ==
    \A n \in ParamNames :
        C21_Case(n) =>
            LET ev == events[n]
            IN  /\ Cardinality(Raised(n)) <= 1
                /\ \A i \in DOMAIN ev : \A j \in DOMAIN ev :
                       (i < j /\ ev[i].tag \in {"raise", "stop"}) => ev[j].tag = "stop"
                /\ \A i \in Raised(n) :
                       /\ ev[i].err = UniqueError(n)
                       /\ SourceGen(n).pos = i
                       /\ gens[arguments[n].id].pc = "closed"
                /\ \A i \in Yielded(n) :
                       /\ ev[i].val = SrcElem(SourceGen(n), i)
                       /\ \A j \in Yielded(n) : i # j => ~PyEq(ev[i].val, ev[j].val)

C21_Witness ==
    /\ C21_Case("items")
    /\ SourceGen("items").items = <<1, 1, 2>>
    /\ Len(events["items"]) = 4
    /\ events["items"][2].tag = "raise"
    /\ events["items"][4].tag = "stop"
    /\ SourceGen("items").pos = 2

(***************************************************************************)
(* C22: one Unique instance is the validator of two generator parameters   *)
(* of a callable that is called once or twice.  In every call, in whatever *)
(* order the body pulls from the two wrappers and whatever an earlier call *)
(* has seen, each wrapper does what its own generator alone decides: its   *)
(* elements up to the first repeated one, then the ValidationError, then   *)
(* StopIteration.  With the eager flag the call fails for the first        *)
(* parameter, in the order of the signature, whose own generator has a     *)
(* repeated element, and otherwise the callable gets the lists.            *)
(***************************************************************************)
C22_Case ==
    /\ \A n \in ParamNames : IsStreamParam(n) /\ Len(RulesOf(n)) = 1
    /\ \A n \in ParamNames : \A m \in ParamNames :
           RulesOf(n) = RulesOf(m) /\ RulesOf(n)[1].cls = "Unique"

\* the outcome of the i-th next() on a lazy Unique wrapper over generator g
C22_Expected(g, n, i) ==
    LET k == FirstDup(g)
    IN  IF k >= 0 /\ i = k + 1 THEN [tag |-> "raise", val |-> 0, err |-> UniqueError(n)]
        ELSE IF (k >= 0 /\ i > k + 1) \/ (~g.infinite /\ i > Len(g.items))
        THEN [tag |-> "stop", val |-> 0, err |-> NoErr]
        ELSE [tag |-> "yield", val |-> SrcElem(g, i), err |-> NoErr]

C22_SharedRuleDoesNotInterfere ==
    C22_Case =>
        LET dups == {i \in DOMAIN sig : FirstDup(SourceGen(sig[i].name)) >= 0}
        IN  IF \A n \in ParamNames : IsLazyRule(RulesOf(n)[1])
            THEN /\ pc # "failed_call"
                 /\ \A n \in ParamNames : \A i \in DOMAIN events[n] :
                        events[n][i] = C22_Expected(SourceGen(n), n, i)
            ELSE /\ dups # {} =>
                        /\ ~Invoked
                        /\ pc = "failed_call" =>
                               err = UniqueError(sig[CHOOSE i \in dups : \A j \in dups : i <= j].name)
                 /\ dups = {} => pc # "failed_call"
                 /\ Invoked => \A n \in ParamNames :
                                   arguments[n] = ListValue(SourceGen(n).items)

\* a second call; the first one saw 1 in both generators, had a repeated
\* element in one, and this call's generators yield 1 again, in turn
C22_Witness ==
    /\ C22_Case
    /\ IsLazyRule(RulesOf("name")[1])
    /\ pending = <<>>
    /\ \E id \in DOMAIN gens :
           /\ id < SuppliedValue("name").id
           /\ gens[id].kind = "Unique"
           /\ gens[id].pc = "closed"
           /\ 1 \in gens[id].seen
    /\ SourceGen("name").items = <<1, 2>>
    /\ SourceGen("settings").items = <<1>>
    /\ Len(events["name"]) = 2
    /\ Len(events["settings"]) = 2
    /\ events["name"][2].tag = "yield"
    /\ events["settings"][1].tag = "yield"
    /\ pc = "returned"

(***************************************************************************)
(* C23: the validators are applied to the value each parameter resolves    *)
(* to: the positional argument, the keyword argument, or the declared      *)
(* default when the caller left the parameter out.  When the call binds,   *)
(* a resolved value that is not a generator and fails a validator keeps    *)
(* the callable from being invoked; the call ends with the first failure   *)
(* of validate on the resolved value of the parameter it names; when no    *)
(* resolved value fails, the call does not fail and the callable gets the  *)
(* resolved values.  The outcome is a function of the resolved values, so  *)
(* it is the same for a value passed positionally, by keyword, or taken    *)
(* from the default.                                                       *)
(***************************************************************************)
C23_Keyword(i) == {k \in DOMAIN kwargs : kwargs[k].name = sig[i].name}

C23_Binds ==
    /\ Len(args) <= Len(sig)
    /\ \A k \in DOMAIN kwargs : \E i \in DOMAIN sig : sig[i].name = kwargs[k].name
    /\ \A i \in DOMAIN sig :
           /\ i <= Len(args) => C23_Keyword(i) = {}
           /\ (i > Len(args) /\ C23_Keyword(i) = {}) => sig[i].default # NoDefault

C23_Resolved(i) ==
    IF i <= Len(args) THEN args[i]
    ELSE IF C23_Keyword(i) # {} THEN kwargs[CHOOSE k \in C23_Keyword(i) : TRUE].value
    ELSE sig[i].default

C23_Failure(i) ==
    LET rs == sig[i].rules
        v == C23_Resolved(i)
        failing == {j \in DOMAIN rs : validate(rs[j], v, sig[i].name) # NoErr}
    IN  IF IsGenerator(v) \/ failing = {} THEN NoErr
        ELSE validate(rs[CHOOSE j \in failing : \A l \in failing : j <= l], v, sig[i].name)

C23_ResolvedValuesAreValidated ==
    C23_Binds =>
        LET failing == {i \in DOMAIN sig : C23_Failure(i) # NoErr}
        IN  /\ failing # {} => ~Invoked
            /\ pc = "failed_call" =>
                   LET i == IndexOf(err.param)
                   IN  ~IsGenerator(C23_Resolved(i)) =>
                           /\ err = C23_Failure(i)
                           /\ \A j \in failing : i <= j
            /\ (failing = {} /\ \A i \in DOMAIN sig : ~IsGenerator(C23_Resolved(i)))
                   => pc \notin {"failed_call", "hang"}
            /\ \A i \in DOMAIN sig :
                   (sig[i].name \in DOMAIN arguments /\ ~IsGenerator(C23_Resolved(i)))
                       => arguments[sig[i].name] = C23_Resolved(i)

C23_Witness ==
    /\ args = <<ListValue(<<1>>)>>
    /\ kwargs = <<>>
    /\ sig[2].default = ListValue(<<>>)
    /\ sig[2].rules = <<[cls |-> "NotEmpty", exhaust_generators |-> FALSE]>>
    /\ pc = "failed_call"
    /\ err = NotEmptyError("optional")

====
